---- MODULE Spec2Model ----
(***************************************************************************)
(* Model of epg_scraper.py: the XMLTV timestamp parser, the day-boundary   *)
(* builder, the per-programme clipping done by process_channel, and the    *)
(* worker pool of main.                                                    *)
(*                                                                         *)
(* A datetime is a record [s, us]: whole seconds since 00:00:00 of day 0   *)
(* on its own wall clock, and microseconds.  A date is a day number.       *)
(* America/Sao_Paulo has had the fixed offset UTC-03:00 since 2019, so the *)
(* local wall clock is the UTC wall clock minus TargetOffsetSeconds.       *)
(* The title and description of a programme are copied into the entry      *)
(* unchanged and play no part in the clipping; they are left out.  The     *)
(* fields adj_start, adj_end and src of an entry are history fields: the   *)
(* code keeps only the two formatted strings.                              *)
(***************************************************************************)
EXTENDS Integers, Sequences, FiniteSets, TLC

VARIABLES now_local, channels, xml_content,
          pc, idx, bounds, today_shows, tomorrow_shows, warnings,
          saved, result, raised,
          main_pc, counted, successful, failed, exit_code,
          parse_in, parse_out

vars == <<now_local, channels, xml_content,
          pc, idx, bounds, today_shows, tomorrow_shows, warnings,
          saved, result, raised,
          main_pc, counted, successful, failed, exit_code,
          parse_in, parse_out>>

-----------------------------------------------------------------------------
(* Bounds of the model *)

MaxProgs == 2

NumChannels == 3

MaxDay == 3

(* Program constants *)

max_workers == 5

TargetOffsetSeconds == 10800

SecondsPerDay == 86400

MicrosMax == 999999

-----------------------------------------------------------------------------
(* Datetimes *)

DT(s, us) == [s |-> s, us |-> us]

Lt(a, b) == a.s < b.s \/ (a.s = b.s /\ a.us < b.us)

Le(a, b) == a = b \/ Lt(a, b)

DateOf(dt) == dt.s \div SecondsPerDay

Midnight(d) == DT(d * SecondsPerDay, 0)

AddDays(dt, n) == DT(dt.s + n * SecondsPerDay, dt.us)

(* The instant one microsecond after dt. *)
NextMicro(dt) == IF dt.us = MicrosMax THEN DT(dt.s + 1, 0) ELSE DT(dt.s, dt.us + 1)

-----------------------------------------------------------------------------
(* Timestamp strings.  The first fourteen characters are the fields day,   *)
(* hh, mm, ss (a field out of its range stands for digits strptime         *)
(* rejects); off is the suffix: "none" when the string stops after the     *)
(* digits, "bad" when the suffix is not an offset, or the offset as        *)
(* written.  NoAttr is a missing attribute (prog.get returns None).        *)

NoAttr == [day |-> 0, hh |-> 0, mm |-> 0, ss |-> 0, off |-> "missing"]

Stamp(day, hh, mm, off) == [day |-> day, hh |-> hh, mm |-> mm, ss |-> 0, off |-> off]

ParseFails(time_str) ==
    \/ time_str = NoAttr
    \/ time_str.hh > 23
    \/ time_str.mm > 59
    \/ time_str.ss > 59

parse_xmltv_time(time_str) ==
    DT(time_str.day * SecondsPerDay + time_str.hh * 3600
         + time_str.mm * 60 + time_str.ss, 0)

convert_to_local(dt) == DT(dt.s - TargetOffsetSeconds, dt.us)

format_time_12h(dt) ==
    LET h24 == (dt.s % SecondsPerDay) \div 3600
        mi  == (dt.s % 3600) \div 60
    IN  <<IF h24 % 12 = 0 THEN 12 ELSE h24 % 12, mi,
          IF h24 < 12 THEN "AM" ELSE "PM">>

format_date(dt) == DateOf(dt)

(* Variant: the end bound is the next local midnight. *)
get_day_boundaries_half_open(date_obj) ==
    LET date_only == DateOf(date_obj)
    IN  [start |-> Midnight(date_only), end |-> Midnight(date_only + 1)]

get_day_boundaries(date_obj) ==
    LET date_only == DateOf(date_obj)
    IN  [start |-> Midnight(date_only),
         end   |-> DT(date_only * SecondsPerDay + SecondsPerDay - 1, MicrosMax)]

-----------------------------------------------------------------------------
(* The clipping of process_channel *)

NoBounds ==
    [today_start |-> DT(0, 0), today_end |-> DT(0, 0),
     tomorrow_start |-> DT(0, 0), tomorrow_end |-> DT(0, 0),
     today_target |-> 0, tomorrow_target |-> 0]

DayBounds(today_date, tomorrow_date) ==
    [today_start     |-> get_day_boundaries(today_date).start,
     today_end       |-> get_day_boundaries(today_date).end,
     tomorrow_start  |-> get_day_boundaries(tomorrow_date).start,
     tomorrow_end    |-> get_day_boundaries(tomorrow_date).end,
     today_target    |-> DateOf(today_date),
     tomorrow_target |-> DateOf(tomorrow_date)]

(* Variant: the show's own times, neither truncated nor clamped. *)
ClipStartsInDayUnclamped(start_local, stop_local, target, day_start, day_end) ==
    [adj_start |-> start_local, adj_end |-> stop_local]

(* A show that starts in the day: end truncated when it runs past          *)
(* midnight, then both ends clamped to the day's boundaries.               *)
ClipStartsInDay(start_local, stop_local, target, day_start, day_end) ==
    LET end1   == IF DateOf(stop_local) > target THEN day_end ELSE stop_local
        start2 == IF Lt(start_local, day_start) THEN day_start ELSE start_local
        end2   == IF Lt(day_end, end1) THEN day_end ELSE end1
    IN  [adj_start |-> start2, adj_end |-> end2]

(* A show that started before the day and runs into it. *)
ClipContinuation(stop_local, day_start, day_end) ==
    [adj_start |-> day_start,
     adj_end   |-> IF Lt(day_end, stop_local) THEN day_end ELSE stop_local]

Entry(i, clip) ==
    [start_time |-> format_time_12h(clip.adj_start),
     end_time   |-> format_time_12h(clip.adj_end),
     adj_start  |-> clip.adj_start,
     adj_end    |-> clip.adj_end,
     src        |-> i]

(* One iteration of the loop over the programmes: the entries programme i  *)
(* appends to each day's list, or error when a timestamp does not parse.   *)
ProcessProgramme(prog, i, b) ==
    IF ParseFails(prog.start) \/ ParseFails(prog.stop)
    THEN [error |-> TRUE, today |-> <<>>, tomorrow |-> <<>>]
    ELSE
      LET start_local == convert_to_local(parse_xmltv_time(prog.start))
          stop_local  == convert_to_local(parse_xmltv_time(prog.stop))
          show_date   == DateOf(start_local)
      IN  IF show_date = b.today_target
          THEN [error |-> FALSE,
                today |-> <<Entry(i, ClipStartsInDay(start_local, stop_local,
                              b.today_target, b.today_start, b.today_end))>>,
                tomorrow |-> <<>>]
          ELSE IF show_date = b.tomorrow_target
          THEN [error |-> FALSE,
                today |-> <<>>,
                tomorrow |-> <<Entry(i, ClipStartsInDay(start_local, stop_local,
                              b.tomorrow_target, b.tomorrow_start, b.tomorrow_end))>>]
          ELSE IF show_date < b.today_target /\ DateOf(stop_local) >= b.today_target
          THEN [error |-> FALSE,
                today |-> <<Entry(i, ClipContinuation(stop_local,
                              b.today_start, b.today_end))>>,
                tomorrow |-> <<>>]
          ELSE IF show_date = b.today_target /\ DateOf(stop_local) > b.tomorrow_target
          THEN [error |-> FALSE,
                today |-> <<>>,
                tomorrow |-> <<Entry(i, ClipContinuation(stop_local,
                              b.tomorrow_start, b.tomorrow_end))>>]
          ELSE [error |-> FALSE, today |-> <<>>, tomorrow |-> <<>>]

-----------------------------------------------------------------------------
(* Inputs *)

Tasks == 1..Len(channels)

Programmes(k) == xml_content[channels[k]]

(* Today is local day 1.  The stamps are written in UTC: local 23:00       *)
(* yesterday, 00:00 today, 23:30 today, 00:00 tomorrow, 00:45 tomorrow and *)
(* 00:00 the day after.  A programme starts at any of them and stops at    *)
(* any but the first, so stop may precede or equal start.  BadStamp has    *)
(* digits that do not parse.                                               *)
FeedStops ==
    {Stamp(1, 3, 0, "+0000"), Stamp(2, 2, 30, "+0000"), Stamp(2, 3, 0, "+0000"),
     Stamp(2, 3, 45, "+0000"), Stamp(3, 3, 0, "+0000")}

FeedStarts == {Stamp(1, 2, 0, "+0000")} \cup FeedStops

BadStamp == Stamp(2, 24, 60, "+0000")

FeedProgrammes ==
    [start : FeedStarts, stop : FeedStops]
      \cup {[start |-> BadStamp, stop |-> Stamp(2, 3, 45, "+0000")],
            [start |-> Stamp(2, 2, 30, "+0000"), stop |-> BadStamp]}

Feeds == UNION {[1..n -> FeedProgrammes] : n \in 0..MaxProgs}

PoolFeeds ==
    {<<>>,
     <<[start |-> Stamp(2, 2, 30, "+0000"), stop |-> Stamp(2, 3, 45, "+0000")]>>,
     <<[start |-> NoAttr, stop |-> Stamp(2, 3, 45, "+0000")]>>}

NowChoices == {DT(SecondsPerDay, 0), DT(SecondsPerDay + 55205, 123456)}

StampInputs ==
    [day : 0..MaxDay, hh : {0, 1, 23, 24}, mm : {0, 30}, ss : {0},
     off : {"none", "bad", "+0000", "-0300", "+0530"}]

ParseIdle == [status |-> "idle", value |-> DT(0, 0)]

InitTasks ==
    /\ pc = [k \in Tasks |-> "new"]
    /\ idx = [k \in Tasks |-> 0]
    /\ bounds = [k \in Tasks |-> NoBounds]
    /\ today_shows = [k \in Tasks |-> <<>>]
    /\ tomorrow_shows = [k \in Tasks |-> <<>>]
    /\ warnings = [k \in Tasks |-> 0]
    /\ saved = [k \in Tasks |-> [today |-> <<>>, tomorrow |-> <<>>]]
    /\ result = [k \in Tasks |-> <<>>]
    /\ raised = [k \in Tasks |-> FALSE]
    /\ main_pc = "start"
    /\ counted = {}
    /\ successful = 0
    /\ failed = 0
    /\ exit_code = -1

(* One channel, any feed of up to MaxProgs programmes. *)
Init ==
    /\ now_local = DT(SecondsPerDay + 55205, 123456)
    /\ channels = <<1>>
    /\ xml_content \in [{1} -> Feeds]
    /\ InitTasks
    /\ parse_in = NoAttr
    /\ parse_out = ParseIdle

(* NumChannels channels, each with no programme, one good programme or     *)
(* one programme without a start attribute; the run starts at local        *)
(* midnight or in the afternoon.                                           *)
PoolInit ==
    /\ now_local \in NowChoices
    /\ channels = [k \in 1..NumChannels |-> k]
    /\ xml_content \in [1..NumChannels -> PoolFeeds]
    /\ InitTasks
    /\ parse_in = NoAttr
    /\ parse_out = ParseIdle

(* No channel; one timestamp string to parse. *)
ParseInit ==
    /\ now_local = DT(SecondsPerDay, 0)
    /\ channels = <<>>
    /\ xml_content = <<>>
    /\ InitTasks
    /\ parse_in \in StampInputs \cup {NoAttr}
    /\ parse_out = ParseIdle

-----------------------------------------------------------------------------
(* Actions *)

taskVars == <<pc, idx, bounds, today_shows, tomorrow_shows, warnings,
              saved, result, raised>>

mainVars == <<main_pc, counted, successful, failed, exit_code>>

inputVars == <<now_local, channels, xml_content>>

parseVars == <<parse_in, parse_out>>

today_local == now_local

tomorrow_local == AddDays(now_local, 1)

Running == {k \in Tasks : pc[k] = "loop"}

ExceptResult(channel_id) == <<channel_id, FALSE>>

(* main: submit one task per channel *)
MainSubmit ==
    /\ main_pc = "start"
    /\ main_pc' = "collect"
    /\ pc' = [k \in Tasks |-> "queued"]
    /\ UNCHANGED <<idx, bounds, today_shows, tomorrow_shows, warnings,
                   saved, result, raised>>
    /\ UNCHANGED <<counted, successful, failed, exit_code>>
    /\ UNCHANGED <<inputVars, parseVars>>

(* process_channel up to the loop: find the channel's programmes, return   *)
(* failure when there is none, else compute the day boundaries.            *)
TaskStart(k) ==
    /\ pc[k] = "queued"
    /\ Cardinality(Running) < max_workers
    /\ IF Programmes(k) = <<>>
       THEN /\ pc' = [pc EXCEPT ![k] = "finished"]
            /\ result' = [result EXCEPT ![k] = <<channels[k], FALSE>>]
            /\ UNCHANGED <<idx, bounds>>
       ELSE /\ pc' = [pc EXCEPT ![k] = "loop"]
            /\ idx' = [idx EXCEPT ![k] = 1]
            /\ bounds' = [bounds EXCEPT ![k] = DayBounds(today_local, tomorrow_local)]
            /\ UNCHANGED result
    /\ UNCHANGED <<today_shows, tomorrow_shows, warnings, saved, raised>>
    /\ UNCHANGED <<mainVars, inputVars, parseVars>>

(* Variant: a programme that does not parse ends the channel's run. *)
TaskProgrammeAbort(k) ==
    /\ pc[k] = "loop"
    /\ idx[k] <= Len(Programmes(k))
    /\ LET r == ProcessProgramme(Programmes(k)[idx[k]], idx[k], bounds[k])
       IN  IF r.error
           THEN /\ pc' = [pc EXCEPT ![k] = "finished"]
                /\ result' = [result EXCEPT ![k] = ExceptResult(channels[k])]
                /\ raised' = [raised EXCEPT ![k] = TRUE]
                /\ UNCHANGED <<today_shows, tomorrow_shows, idx>>
           ELSE /\ today_shows' = [today_shows EXCEPT ![k] = @ \o r.today]
                /\ tomorrow_shows' = [tomorrow_shows EXCEPT ![k] = @ \o r.tomorrow]
                /\ idx' = [idx EXCEPT ![k] = @ + 1]
                /\ UNCHANGED <<pc, result, raised>>
    /\ UNCHANGED <<bounds, saved, warnings>>
    /\ UNCHANGED <<mainVars, inputVars, parseVars>>

(* one iteration of the loop over the programmes *)
TaskProgramme(k) ==
    /\ pc[k] = "loop"
    /\ idx[k] <= Len(Programmes(k))
    /\ LET r == ProcessProgramme(Programmes(k)[idx[k]], idx[k], bounds[k])
       IN  IF r.error
           THEN /\ warnings' = [warnings EXCEPT ![k] = @ + 1]
                /\ UNCHANGED <<today_shows, tomorrow_shows>>
           ELSE /\ today_shows' = [today_shows EXCEPT ![k] = @ \o r.today]
                /\ tomorrow_shows' = [tomorrow_shows EXCEPT ![k] = @ \o r.tomorrow]
                /\ UNCHANGED warnings
    /\ idx' = [idx EXCEPT ![k] = @ + 1]
    /\ UNCHANGED <<pc, bounds, saved, result, raised>>
    /\ UNCHANGED <<mainVars, inputVars, parseVars>>

(* after the loop: save each non-empty day and return success; an error    *)
(* raised by save_schedule is caught and turned into a failure.            *)
TaskSave(k) ==
    /\ pc[k] = "loop"
    /\ idx[k] > Len(Programmes(k))
    /\ \E io \in {"ok", "today", "tomorrow"} :
         LET today_raises    == io = "today" /\ today_shows[k] # <<>>
             tomorrow_raises == io = "tomorrow" /\ tomorrow_shows[k] # <<>>
         IN  /\ saved' = [saved EXCEPT ![k] =
                    [today    |-> IF today_raises THEN <<>> ELSE today_shows[k],
                     tomorrow |-> IF today_raises \/ tomorrow_raises
                                  THEN <<>> ELSE tomorrow_shows[k]]]
             /\ raised' = [raised EXCEPT ![k] = today_raises \/ tomorrow_raises]
             /\ result' = [result EXCEPT ![k] =
                    IF today_raises \/ tomorrow_raises
                    THEN ExceptResult(channels[k])
                    ELSE <<channels[k], TRUE>>]
    /\ pc' = [pc EXCEPT ![k] = "finished"]
    /\ UNCHANGED <<idx, bounds, today_shows, tomorrow_shows, warnings>>
    /\ UNCHANGED <<mainVars, inputVars, parseVars>>

(* Variant: a failed channel is collected but not counted. *)
MainCollectDropsFailure(k) ==
    /\ main_pc = "collect"
    /\ pc[k] = "finished"
    /\ k \notin counted
    /\ counted' = counted \cup {k}
    /\ IF result[k][2] = TRUE
       THEN successful' = successful + 1 /\ UNCHANGED failed
       ELSE UNCHANGED <<successful, failed>>
    /\ UNCHANGED <<main_pc, exit_code>>
    /\ UNCHANGED <<taskVars, inputVars, parseVars>>

(* main: take the result of a completed future and count it *)
MainCollect(k) ==
    /\ main_pc = "collect"
    /\ pc[k] = "finished"
    /\ k \notin counted
    /\ counted' = counted \cup {k}
    /\ IF result[k][2] = TRUE
       THEN successful' = successful + 1 /\ UNCHANGED failed
       ELSE failed' = failed + 1 /\ UNCHANGED successful
    /\ UNCHANGED <<main_pc, exit_code>>
    /\ UNCHANGED <<taskVars, inputVars, parseVars>>

(* main: every future collected; exit with 1 when a channel failed *)
MainFinish ==
    /\ main_pc = "collect"
    /\ counted = Tasks
    /\ main_pc' = "done"
    /\ exit_code' = IF failed > 0 THEN 1 ELSE 0
    /\ UNCHANGED <<counted, successful, failed>>
    /\ UNCHANGED <<taskVars, inputVars, parseVars>>

(* parse_xmltv_time applied to the input string *)
ParseApply ==
    /\ parse_out.status = "idle"
    /\ parse_out' = IF ParseFails(parse_in)
                    THEN [status |-> "error", value |-> DT(0, 0)]
                    ELSE [status |-> "ok", value |-> parse_xmltv_time(parse_in)]
    /\ UNCHANGED parse_in
    /\ UNCHANGED <<taskVars, mainVars, inputVars>>

Next ==
    \/ MainSubmit
    \/ \E k \in Tasks : TaskStart(k)
    \/ \E k \in Tasks : TaskProgramme(k)
    \/ \E k \in Tasks : TaskSave(k)
    \/ \E k \in Tasks : MainCollect(k)
    \/ MainFinish

ParseNext == ParseApply

Spec == Init /\ [][Next]_vars

PoolSpec == PoolInit /\ [][Next]_vars

ParseSpec == ParseInit /\ [][ParseNext]_vars

-----------------------------------------------------------------------------
(* Vocabulary of the properties *)

(* The task has passed the lookup of its programmes and computed bounds. *)
InLoop(k) == pc[k] \in {"loop", "finished"} /\ idx[k] > 0

(* Programme i of task k has been through its loop iteration. *)
Processed(k, i) == InLoop(k) /\ i \in 1..(idx[k] - 1)

Parses(prog) == ~ParseFails(prog.start) /\ ~ParseFails(prog.stop)

LocalStart(prog) == convert_to_local(parse_xmltv_time(prog.start))

LocalStop(prog) == convert_to_local(parse_xmltv_time(prog.stop))

(* Positions of the entries of a list that come from programme i. *)
From(shows, i) == {j \in 1..Len(shows) : shows[j].src = i}

Max(a, b) == IF Lt(a, b) THEN b ELSE a

Min(a, b) == IF Lt(a, b) THEN a ELSE b

(* start < end and the span lies in the civil day d, next midnight included *)
InsideDay(prog, d) ==
    /\ Lt(LocalStart(prog), LocalStop(prog))
    /\ Le(Midnight(d), LocalStart(prog))
    /\ Le(LocalStop(prog), Midnight(d + 1))

(* start < end and the span meets both civil days d and d + 1 *)
OverlapsBoth(prog, d) ==
    /\ Lt(LocalStart(prog), LocalStop(prog))
    /\ Lt(LocalStart(prog), Midnight(d + 1))
    /\ Lt(Midnight(d + 1), LocalStop(prog))

StripSrc(e) ==
    [start_time |-> e.start_time, end_time |-> e.end_time,
     adj_start |-> e.adj_start, adj_end |-> e.adj_end]

StripAll(shows) == [j \in 1..Len(shows) |-> StripSrc(shows[j])]

RECURSIVE AloneShows(_, _, _, _)
(* The entries of one day that the first n programmes of a feed yield when *)
(* each parseable one is processed on its own and the rest are absent.     *)
AloneShows(feed, n, b, day) ==
    IF n = 0 THEN <<>>
    ELSE LET r == ProcessProgramme(feed[n], 0, b)
             mine == IF day = "today" THEN r.today ELSE r.tomorrow
         IN  IF Parses(feed[n])
             THEN AloneShows(feed, n - 1, b, day) \o StripAll(mine)
             ELSE AloneShows(feed, n - 1, b, day)

BadCount(feed, n) == Cardinality({i \in 1..n : ~Parses(feed[i])})

SortedStable(shows) ==
    \A i, j \in 1..Len(shows) :
        i < j => \/ Lt(shows[i].adj_start, shows[j].adj_start)
                 \/ (shows[i].adj_start = shows[j].adj_start
                       /\ shows[i].src < shows[j].src)

InsideWindow(e, day_start, day_end) ==
    /\ Le(day_start, e.adj_start)
    /\ Lt(e.adj_start, e.adj_end)
    /\ Le(e.adj_end, day_end)

OffsetSeconds(off) ==
    IF off = "-0300" THEN -10800 ELSE IF off = "+0530" THEN 19800 ELSE 0

-----------------------------------------------------------------------------
(* Properties *)

(* C1: every entry in today_shows or tomorrow_shows has its clipped start  *)
(* strictly before its clipped end, and both lie inside the window that    *)
(* produced the entry.                                                     *)
C1_EntriesInsideWindow ==
    \A k \in Tasks :
        /\ \A j \in 1..Len(today_shows[k]) :
              InsideWindow(today_shows[k][j],
                           bounds[k].today_start, bounds[k].today_end)
        /\ \A j \in 1..Len(tomorrow_shows[k]) :
              InsideWindow(tomorrow_shows[k][j],
                           bounds[k].tomorrow_start, bounds[k].tomorrow_end)

(* C2: a programme (start < end) whose span meets both today's and         *)
(* tomorrow's window yields exactly one entry in each day's list, the two  *)
(* entries meet at midnight without gap or overlap, and together they      *)
(* cover the programme's span cut to the two days.                         *)
C2_SplitAtMidnight ==
    \A k \in Tasks : \A i \in 1..Len(Programmes(k)) :
        LET prog == Programmes(k)[i]
            d    == bounds[k].today_target
        IN  (Processed(k, i) /\ Parses(prog) /\ OverlapsBoth(prog, d)) =>
              /\ Cardinality(From(today_shows[k], i)) = 1
              /\ Cardinality(From(tomorrow_shows[k], i)) = 1
              /\ \A j \in From(today_shows[k], i) :
                   \A m \in From(tomorrow_shows[k], i) :
                     /\ today_shows[k][j].adj_start = Max(LocalStart(prog), Midnight(d))
                     /\ today_shows[k][j].adj_end = tomorrow_shows[k][m].adj_start
                     /\ tomorrow_shows[k][m].adj_end = Min(LocalStop(prog), Midnight(d + 2))

(* C3: a programme (start < end) that starts exactly at the end of a day   *)
(* window, the next local midnight, gives that day no entry, and one that  *)
(* ends exactly at the start of a day window gives that day no entry.      *)
C3_BoundaryExclusive ==
    \A k \in Tasks : \A i \in 1..Len(Programmes(k)) :
        LET prog == Programmes(k)[i]
            d    == bounds[k].today_target
        IN  (Processed(k, i) /\ Parses(prog) /\ Lt(LocalStart(prog), LocalStop(prog))) =>
              /\ (LocalStart(prog) = Midnight(d + 1) \/ LocalStop(prog) = Midnight(d))
                    => From(today_shows[k], i) = {}
              /\ (LocalStart(prog) = Midnight(d + 2) \/ LocalStop(prog) = Midnight(d + 1))
                    => From(tomorrow_shows[k], i) = {}

(* C4: a programme whose end is not strictly after its start gives no      *)
(* entry to either day.                                                    *)
C4_DegenerateDropped ==
    \A k \in Tasks : \A i \in 1..Len(Programmes(k)) :
        LET prog == Programmes(k)[i]
        IN  (Processed(k, i) /\ Parses(prog) /\ ~Lt(LocalStart(prog), LocalStop(prog))) =>
              /\ From(today_shows[k], i) = {}
              /\ From(tomorrow_shows[k], i) = {}

(* The entry that a programme lying inside one day must produce: its own   *)
(* local start and the given end, formatted.                               *)
OwnEntry(e, prog, end) ==
    /\ e.adj_start = LocalStart(prog)
    /\ e.adj_end = end
    /\ e.start_time = format_time_12h(LocalStart(prog))
    /\ e.end_time = format_time_12h(end)

C7_SavedSorted ==
    \A k \in Tasks : pc[k] = "finished" =>
        SortedStable(saved[k].today) /\ SortedStable(saved[k].tomorrow)

(* C8: a programme whose start or stop does not parse adds no entry and    *)
(* one warning; the lists hold exactly what the parseable programmes yield *)
(* with the bad ones absent; the loop runs to the end of the feed and the  *)
(* channel succeeds unless saving fails.                                   *)
C8_BadRecordIsolated ==
    \A k \in Tasks : InLoop(k) =>
        /\ \A i \in 1..(idx[k] - 1) : ~Parses(Programmes(k)[i]) =>
              From(today_shows[k], i) = {} /\ From(tomorrow_shows[k], i) = {}
        /\ StripAll(today_shows[k])
              = AloneShows(Programmes(k), idx[k] - 1, bounds[k], "today")
        /\ StripAll(tomorrow_shows[k])
              = AloneShows(Programmes(k), idx[k] - 1, bounds[k], "tomorrow")
        /\ warnings[k] = BadCount(Programmes(k), idx[k] - 1)
        /\ pc[k] = "finished" =>
              /\ idx[k] = Len(Programmes(k)) + 1
              /\ result[k] = <<channels[k], ~raised[k]>>

(* C8 witness: a finished channel whose first programme did not parse and  *)
(* whose second programme produced an entry.                               *)
C8_Witness ==
    \E k \in Tasks :
        /\ pc[k] = "finished" /\ idx[k] = 3
        /\ ~Parses(Programmes(k)[1])
        /\ From(today_shows[k], 2) # {}
        /\ warnings[k] = 1
        /\ result[k] = <<channels[k], TRUE>>

(* C9: a timestamp without a readable offset is rejected, and one with an  *)
(* offset denotes the instant its wall time minus that offset.             *)
C9_NoDefaultOffset ==
    parse_out.status # "idle" =>
        /\ parse_in.off \in {"none", "bad", "missing"} => parse_out.status = "error"
        /\ parse_out.status = "ok" =>
              parse_out.value.s = parse_in.day * SecondsPerDay + parse_in.hh * 3600
                                    + parse_in.mm * 60 + parse_in.ss
                                    - OffsetSeconds(parse_in.off)

(* C10: a finished task has returned (channel_id, success), success being  *)
(* false exactly when its own channel has no programme or its own run      *)
(* raised; its lists are what its own feed yields; each collected future   *)
(* is counted once; when main is done every channel is finished and        *)
(* counted, so successful + failed is the number of channels.              *)
C10_FailureIsLocal ==
    /\ \A k \in Tasks : pc[k] = "finished" =>
          /\ result[k] = <<channels[k], Programmes(k) # <<>> /\ ~raised[k]>>
          /\ Programmes(k) # <<>> =>
                /\ StripAll(today_shows[k]) = AloneShows(Programmes(k),
                       Len(Programmes(k)), DayBounds(today_local, tomorrow_local), "today")
                /\ StripAll(tomorrow_shows[k]) = AloneShows(Programmes(k),
                       Len(Programmes(k)), DayBounds(today_local, tomorrow_local), "tomorrow")
    /\ successful = Cardinality({k \in counted : result[k][2]})
    /\ failed = Cardinality({k \in counted : ~result[k][2]})
    /\ main_pc = "done" =>
          /\ \A k \in Tasks : pc[k] = "finished"
          /\ counted = Tasks
          /\ successful + failed = Len(channels)

(* C10 witness: main is done after one channel had no programme, one       *)
(* raised while saving and one succeeded.                                  *)
C10_Witness ==
    /\ main_pc = "done"
    /\ \E k \in Tasks : Programmes(k) = <<>> /\ result[k] = <<channels[k], FALSE>>
    /\ \E k \in Tasks : raised[k] /\ result[k] = <<channels[k], FALSE>>
    /\ \E k \in Tasks : result[k] = <<channels[k], TRUE>>
    /\ successful >= 1 /\ failed >= 2

====
